---- MODULE Spec2Model ----
(***************************************************************************)
(* A model of the 2-D cell transmission simulation (src/model.py): the     *)
(* Point, Cell and Model classes.  Coordinates are integers on a small     *)
(* lattice; random() is a choice among a few sample values.  Python list   *)
(* indices are kept: a population is a function with domain 0..n-1.        *)
(***************************************************************************)
EXTENDS Integers, FiniteSets, Sequences, TLC

(* ---------------- bounds of the model ---------------- *)
MaxCells == 3
MaxSpeed == 1
MaxTime == 4
MaxCalls == 5

(* ---------------- projects.pj02.constants (scaled arena) ---------------- *)
BOUNDS_WIDTH == 2
MAX_X == BOUNDS_WIDTH \div 2
MIN_X == -MAX_X
BOUNDS_HEIGHT == 2
MAX_Y == BOUNDS_HEIGHT \div 2
MIN_Y == -MAX_Y
CELL_RADIUS == 2
VULNERABLE == 0
INFECTED == 1
IMMUNE == -1
RECOVERY_PERIOD == 2

(* ---------------- class Point ---------------- *)
Point(x, y) == [x |-> x, y |-> y]

add(self, other) == Point(self.x + other.x, self.y + other.y)

\* distance() is sqrt(distance2()); on the lattice dist < r iff distance2 < r*r.
distance2(self, other) ==
    (other.x - self.x) * (other.x - self.x) + (other.y - self.y) * (other.y - self.y)

(* ---------------- class Cell ---------------- *)
Cell(location, direction) ==
    [location |-> location, direction |-> direction, sickness |-> VULNERABLE]

is_vulnerable(self) == self.sickness = VULNERABLE

\* is_infected with > where the code has >=.
is_infected_strict(self) == self.sickness > INFECTED

is_infected(self) == self.sickness >= INFECTED

is_immune(self) == self.sickness = IMMUNE

contract_disease(self) == [self EXCEPT !.sickness = INFECTED]

immunize(self) == [self EXCEPT !.sickness = IMMUNE]

color(self) ==
    IF is_infected(self) THEN "red"
    ELSE IF is_immune(self) THEN "green"
    ELSE "gray"

\* Cell.tick without its recovery test: an infection never ends.
Cell_tick_norecover(self) ==
    LET c1 == [self EXCEPT !.location = add(self.location, self.direction)]
    IN  IF is_infected(c1) THEN [c1 EXCEPT !.sickness = c1.sickness + 1] ELSE c1

\* Cell.tick recovering one tick early (>= for >).
Cell_tick_early(self) ==
    LET c1 == [self EXCEPT !.location = add(self.location, self.direction)]
        c2 == IF is_infected(c1) THEN [c1 EXCEPT !.sickness = c1.sickness + 1] ELSE c1
    IN  IF c2.sickness >= RECOVERY_PERIOD THEN immunize(c2) ELSE c2

Cell_tick(self) ==
    LET c1 == [self EXCEPT !.location = add(self.location, self.direction)]
        c2 == IF is_infected(c1) THEN [c1 EXCEPT !.sickness = c1.sickness + 1] ELSE c1
    IN  IF c2.sickness > RECOVERY_PERIOD THEN immunize(c2) ELSE c2

\* contact_with without its second test: only self infects other.
contact_with_oneway(self, other) ==
    <<self, IF is_infected(self) /\ is_vulnerable(other)
            THEN contract_disease(other) ELSE other>>

\* contact_with testing "not infected" where the code tests is_vulnerable.
contact_with_ungated(self, other) ==
    LET o1 == IF is_infected(self) /\ ~is_infected(other)
              THEN contract_disease(other) ELSE other
        s1 == IF ~is_infected(self) /\ is_infected(o1)
              THEN contract_disease(self) ELSE self
    IN  <<s1, o1>>

\* contact_with infecting every other that is not Immune, an Infected one too.
contact_with_reinfect(self, other) ==
    LET o1 == IF is_infected(self) /\ ~is_immune(other)
              THEN contract_disease(other) ELSE other
        s1 == IF is_vulnerable(self) /\ is_infected(o1)
              THEN contract_disease(self) ELSE self
    IN  <<s1, o1>>

\* contact_with letting an Immune self pass the disease on as an Infected one does.
contact_with_carrier(self, other) ==
    LET o1 == IF ~is_vulnerable(self) /\ is_vulnerable(other)
              THEN contract_disease(other) ELSE other
        s1 == IF is_vulnerable(self) /\ is_infected(o1)
              THEN contract_disease(self) ELSE self
    IN  <<s1, o1>>

\* contact_with returns the pair <<self, other>> after the call.
contact_with(self, other) ==
    LET o1 == IF is_infected(self) /\ is_vulnerable(other)
              THEN contract_disease(other) ELSE other
        s1 == IF is_vulnerable(self) /\ is_infected(o1)
              THEN contract_disease(self) ELSE self
    IN  <<s1, o1>>

(* ---------------- class Model: helpers ---------------- *)
Len0(p) == Cardinality(DOMAIN p)

Append0(p, c) == [k \in 0..Len0(p) |-> IF k = Len0(p) THEN c ELSE p[k]]

EmptyPop == [k \in {} |-> 0]

\* random() sampled at n/2 for a location and at quarter turns for an angle.
RandomX == {0, 1}
RandomY == {1}
RandomTurn == {0, 1, 2, 3}

random_location(rx, ry) ==
    Point((rx * BOUNDS_WIDTH) \div 2 - MAX_X, (ry * BOUNDS_HEIGHT) \div 2 - MAX_Y)

Cos4(q) == CASE q = 0 -> 1 [] q = 1 -> 0 [] q = 2 -> -1 [] OTHER -> 0
Sin4(q) == CASE q = 0 -> 0 [] q = 1 -> 1 [] q = 2 -> 0 [] OTHER -> -1

random_direction(q, speed) == Point(Cos4(q) * speed, Sin4(q) * speed)

\* enforce_bounds without its test of the lower x-bound.
enforce_bounds_nolowerx(cell) ==
    LET c1 == IF cell.location.x > MAX_X
              THEN [cell EXCEPT !.location.x = MAX_X, !.direction.x = -cell.direction.x]
              ELSE cell
        c2 == IF c1.location.y > MAX_Y
              THEN [c1 EXCEPT !.location.y = MAX_Y, !.direction.y = -c1.direction.y]
              ELSE c1
    IN  IF c2.location.y < MIN_Y
        THEN [c2 EXCEPT !.location.y = MIN_Y, !.direction.y = -c2.direction.y]
        ELSE c2

\* enforce_bounds clamping at the upper x-bound without turning the cell round.
enforce_bounds_noflip(cell) ==
    LET c1 == IF cell.location.x > MAX_X
              THEN [cell EXCEPT !.location.x = MAX_X]
              ELSE cell
        c2 == IF c1.location.y > MAX_Y
              THEN [c1 EXCEPT !.location.y = MAX_Y, !.direction.y = -c1.direction.y]
              ELSE c1
        c3 == IF c2.location.x < MIN_X
              THEN [c2 EXCEPT !.location.x = MIN_X, !.direction.x = -c2.direction.x]
              ELSE c2
    IN  IF c3.location.y < MIN_Y
        THEN [c3 EXCEPT !.location.y = MIN_Y, !.direction.y = -c3.direction.y]
        ELSE c3

enforce_bounds(cell) ==
    LET c1 == IF cell.location.x > MAX_X
              THEN [cell EXCEPT !.location.x = MAX_X, !.direction.x = -cell.direction.x]
              ELSE cell
        c2 == IF c1.location.y > MAX_Y
              THEN [c1 EXCEPT !.location.y = MAX_Y, !.direction.y = -c1.direction.y]
              ELSE c1
        c3 == IF c2.location.x < MIN_X
              THEN [c2 EXCEPT !.location.x = MIN_X, !.direction.x = -c2.direction.x]
              ELSE c2
    IN  IF c3.location.y < MIN_Y
        THEN [c3 EXCEPT !.location.y = MIN_Y, !.direction.y = -c3.direction.y]
        ELSE c3

\* The k-th Cell constructed takes the k-th group of random() draws; id is the
\* identity of the object (its rank of construction), which != compares.
NewCell(draw, k, speed) ==
    [id |-> k] @@
    Cell(random_location(draw[k].rx, draw[k].ry), random_direction(draw[k].q, speed))

RECURSIVE InitVulnerable(_, _, _, _)
\* for _ in range(0, cells - ninfected - nimmune): population.append(Cell(...))
InitVulnerable(pop, n, draw, speed) ==
    IF n <= 0 THEN pop
    ELSE InitVulnerable(Append0(pop, NewCell(draw, Len0(pop), speed)), n - 1, draw, speed)

RECURSIVE InitInfected(_, _, _, _, _)
\* for i in range(0, ninfected): population[i].contract_disease(); append(Cell(...))
InitInfected(st, i, ninfected, draw, speed) ==
    IF st.raised # "none" \/ i >= ninfected THEN st
    ELSE IF i \notin DOMAIN st.population
         THEN [st EXCEPT !.raised = "IndexError"]
         ELSE InitInfected(
                [st EXCEPT !.population =
                    Append0([st.population EXCEPT ![i] = contract_disease(st.population[i])],
                            NewCell(draw, Len0(st.population), speed))],
                i + 1, ninfected, draw, speed)

RECURSIVE InitImmune_samecells(_, _, _, _, _, _)
\* The third loop indexing population[j] where the code has population[j + ninfected].
InitImmune_samecells(st, j, ninfected, nimmune, draw, speed) ==
    IF st.raised # "none" \/ j >= nimmune THEN st
    ELSE IF j \notin DOMAIN st.population
         THEN [st EXCEPT !.raised = "IndexError"]
         ELSE InitImmune_samecells(
                [st EXCEPT !.population =
                    Append0([st.population EXCEPT ![j] = immunize(st.population[j])],
                            NewCell(draw, Len0(st.population), speed))],
                j + 1, ninfected, nimmune, draw, speed)

RECURSIVE InitImmune(_, _, _, _, _, _)
\* for j in range(0, nimmune): population[j + ninfected].immunize(); append(Cell(...))
InitImmune(st, j, ninfected, nimmune, draw, speed) ==
    IF st.raised # "none" \/ j >= nimmune THEN st
    ELSE IF (j + ninfected) \notin DOMAIN st.population
         THEN [st EXCEPT !.raised = "IndexError"]
         ELSE InitImmune(
                [st EXCEPT !.population =
                    Append0([st.population EXCEPT ![j + ninfected] =
                                immunize(st.population[j + ninfected])],
                            NewCell(draw, Len0(st.population), speed))],
                j + 1, ninfected, nimmune, draw, speed)

\* Model.__init__ with nimmune > cells where the code tests nimmune >= cells.
Model_init_laxcheck(cells, speed, ninfected, nimmune, draw) ==
    IF ninfected >= cells \/ ninfected <= 0
    THEN [raised |-> "ValueError", population |-> EmptyPop]
    ELSE IF nimmune > cells \/ nimmune < 0
    THEN [raised |-> "ValueError", population |-> EmptyPop]
    ELSE LET p1 == InitVulnerable(EmptyPop, cells - ninfected - nimmune, draw, speed)
             s2 == InitInfected([raised |-> "none", population |-> p1], 0,
                                ninfected, draw, speed)
         IN  InitImmune(s2, 0, ninfected, nimmune, draw, speed)

\* Model.__init__: the exception raised ("none" when it returns) and self.population.
Model_init(cells, speed, ninfected, nimmune, draw) ==
    IF ninfected >= cells \/ ninfected <= 0
    THEN [raised |-> "ValueError", population |-> EmptyPop]
    ELSE IF nimmune >= cells \/ nimmune < 0
    THEN [raised |-> "ValueError", population |-> EmptyPop]
    ELSE LET p1 == InitVulnerable(EmptyPop, cells - ninfected - nimmune, draw, speed)
             s2 == InitInfected([raised |-> "none", population |-> p1], 0,
                                ninfected, draw, speed)
         IN  InitImmune(s2, 0, ninfected, nimmune, draw, speed)

RECURSIVE ScanFrom_anydistance(_, _, _)
\* The loops of check_contacts without the test of the distance.
ScanFrom_anydistance(st, i, j) ==
    LET pop == st.population
        n == Len0(pop)
    IN  IF i >= n THEN st
        ELSE IF j >= n THEN ScanFrom_anydistance(st, i + 1, 1)
        ELSE IF pop[j].id # pop[i].id
             THEN LET r == contact_with(pop[i], pop[j])
                  IN  ScanFrom_anydistance(
                        [population |-> [pop EXCEPT ![i] = r[1], ![j] = r[2]],
                         contacts |-> st.contacts \cup {<<i, j>>}], i, j + 1)
             ELSE ScanFrom_anydistance(st, i, j + 1)

RECURSIVE ScanFrom(_, _, _)
\* The loops of check_contacts, at outer index i and inner index j.
ScanFrom(st, i, j) ==
    LET pop == st.population
        n == Len0(pop)
    IN  IF i >= n THEN st
        ELSE IF j >= n THEN ScanFrom(st, i + 1, 1)
        ELSE IF pop[j].id # pop[i].id
                /\ distance2(pop[i].location, pop[j].location)
                            < CELL_RADIUS * CELL_RADIUS
             THEN LET r == contact_with(pop[i], pop[j])
                  IN  ScanFrom([population |-> [pop EXCEPT ![i] = r[1], ![j] = r[2]],
                                contacts |-> st.contacts \cup {<<i, j>>}], i, j + 1)
             ELSE ScanFrom(st, i, j + 1)

\* check_contacts with the outer loop starting at 1, as the inner loop does.
check_contacts_from1(pop) == ScanFrom([population |-> pop, contacts |-> {}], 1, 1)

\* check_contacts: the population after the scan and the (i, j) that made contact.
check_contacts(pop) == ScanFrom([population |-> pop, contacts |-> {}], 0, 1)

\* The for loop of Model.tick storing the cells back in reverse order.
MoveAll_reversed(pop) ==
    [k \in DOMAIN pop |-> enforce_bounds(Cell_tick(pop[Len0(pop) - 1 - k]))]

\* for cell in population: cell.tick(); enforce_bounds(cell)
MoveAll(pop) == [k \in DOMAIN pop |-> enforce_bounds(Cell_tick(pop[k]))]

\* Model.tick scanning for contacts before the cells move.
Model_tick_scanfirst(pop) ==
    LET r == check_contacts(pop)
    IN  [population |-> MoveAll(r.population), contacts |-> r.contacts, scanPre |-> pop]

\* Model.tick without its time += 1: the population after it, with the population
\* as check_contacts found it and the contacts it made.
Model_tick(pop) ==
    LET moved == MoveAll(pop)
        r == check_contacts(moved)
    IN  [population |-> r.population, contacts |-> r.contacts, scanPre |-> moved]

RECURSIVE CompleteFrom(_, _)
CompleteFrom(pop, k) ==
    IF k >= Len0(pop) THEN [ret |-> TRUE, population |-> pop]
    ELSE IF is_infected(pop[k]) THEN [ret |-> FALSE, population |-> pop]
    ELSE CompleteFrom(pop, k + 1)

\* is_complete with k starting at 1.
is_complete_from1(pop) == CompleteFrom(pop, 1)

\* is_complete: the value returned and the population it leaves.
is_complete(pop) == CompleteFrom(pop, 0)

(* ---------------- state ---------------- *)
VARIABLES
    status,      \* "new", "ok" (constructed), "ValueError", "IndexError", "cells"
    args,        \* the arguments given to Model(...)
    population,  \* Model.population
    time,        \* Model.time
    ret,         \* value returned by the last call ("None" when it returns nothing)
    lastCall,    \* history: the last call made
    prev,        \* history: population before the last call
    scanPre,     \* history: population when the last check_contacts started
    contacts,    \* history: pairs (i, j) for which the last scan called contact_with
    since,       \* history: Cell.tick calls on each cell since its contract_disease
    calls        \* history: number of tick() calls made (of all calls in CellSpec)

vars == <<status, args, population, time, ret, lastCall, prev, scanPre, contacts,
          since, calls>>

NoArgs == [cells |-> 0, speed |-> 0, ninfected |-> 0, nimmune |-> 0]

\* A returned bool as the history variable ret keeps it.
PyBool(b) == IF b THEN "True" ELSE "False"

Call(op, a, b) == [op |-> op, a |-> a, b |-> b]

Draws == [rx : RandomX, ry : RandomY, q : RandomTurn]

Init ==
    /\ status = "new"
    /\ args = NoArgs
    /\ population = EmptyPop
    /\ time = 0
    /\ ret = "None"
    /\ lastCall = Call("none", -1, -1)
    /\ prev = EmptyPop
    /\ scanPre = EmptyPop
    /\ contacts = {}
    /\ since = EmptyPop
    /\ calls = 0

\* model = Model(cells, speed, ninfected, nimmune)
Construct ==
    /\ status = "new"
    /\ \E cells \in 0..MaxCells, speed \in 0..MaxSpeed,
          ninfected \in -1..MaxCells, nimmune \in -1..MaxCells :
         \E draw \in [0..(cells - 1) -> Draws] :
            LET r == Model_init(cells, speed, ninfected, nimmune, draw)
            IN  /\ status' = IF r.raised = "none" THEN "ok" ELSE r.raised
                /\ args' = [cells |-> cells, speed |-> speed,
                            ninfected |-> ninfected, nimmune |-> nimmune]
                /\ population' = r.population
    /\ lastCall' = Call("Model.__init__", -1, -1)
    /\ UNCHANGED <<time, ret, prev, scanPre, contacts, since, calls>>

\* model.tick()
Tick ==
    /\ status = "ok"
    /\ time < MaxTime
    /\ time' = time + 1
    /\ LET r == Model_tick(population)
       IN  /\ population' = r.population
           /\ contacts' = r.contacts
           /\ scanPre' = r.scanPre
    /\ prev' = population
    /\ ret' = "None"
    /\ lastCall' = Call("Model.tick", -1, -1)
    /\ calls' = calls + 1
    /\ UNCHANGED <<status, args, since>>

\* model.is_complete()
IsComplete ==
    /\ status = "ok"
    /\ LET r == is_complete(population)
       IN  /\ population' = r.population
           /\ ret' = PyBool(r.ret)
    /\ prev' = population
    /\ lastCall' = Call("Model.is_complete", -1, -1)
    /\ UNCHANGED <<status, args, time, scanPre, contacts, since, calls>>

Next == Construct \/ Tick \/ IsComplete

Spec == Init /\ [][Next]_vars

\* Any model that Model(...) returned, with a caller (the view controller's loop)
\* that keeps calling tick().
LiveInit ==
    /\ status = "ok"
    /\ \E cells \in 0..MaxCells, speed \in 0..MaxSpeed,
          ninfected \in -1..MaxCells, nimmune \in -1..MaxCells :
         \E draw \in [0..(cells - 1) -> Draws] :
            LET r == Model_init(cells, speed, ninfected, nimmune, draw)
            IN  /\ r.raised = "none"
                /\ args = [cells |-> cells, speed |-> speed,
                           ninfected |-> ninfected, nimmune |-> nimmune]
                /\ population = r.population
    /\ time = 0
    /\ ret = "None"
    /\ lastCall = Call("Model.__init__", -1, -1)
    /\ prev = EmptyPop
    /\ scanPre = EmptyPop
    /\ contacts = {}
    /\ since = EmptyPop
    /\ calls = 0

LiveNext == Tick \/ IsComplete

\* A step is a tick() call exactly when it adds 1 to time, and tick() can be called
\* exactly when TickCall is enabled; the fairness is stated on that.
TickCall == status = "ok" /\ time < MaxTime /\ time' = time + 1

LiveSpec == LiveInit /\ [][LiveNext]_vars /\ WF_time(TickCall)

(* ---------------- the Cell class on its own ---------------- *)
\* Two cells built by Cell(location, direction), then any calls of their methods.
CellDraws == {[rx |-> 0, ry |-> 1, q |-> 0], [rx |-> 1, ry |-> 1, q |-> 1]}

CellInit ==
    /\ status = "cells"
    /\ args = NoArgs
    /\ \E d0 \in CellDraws, d1 \in CellDraws :
          LET draw == [k \in 0..1 |-> IF k = 0 THEN d0 ELSE d1]
          IN  population = Append0(Append0(EmptyPop, NewCell(draw, 0, 1)),
                                   NewCell(draw, 1, 1))
    /\ time = 0
    /\ ret = "None"
    /\ lastCall = Call("none", -1, -1)
    /\ prev = EmptyPop
    /\ scanPre = EmptyPop
    /\ contacts = {}
    /\ since = [k \in 0..1 |-> -1]
    /\ calls = 0

CellFrame ==
    /\ calls' = calls + 1
    /\ prev' = population
    /\ ret' = "None"
    /\ UNCHANGED <<status, args, time, scanPre, contacts>>

\* population[c].tick()
CellTick(c) ==
    /\ status = "cells" /\ calls < MaxCalls
    /\ population' = [population EXCEPT ![c] = Cell_tick(population[c])]
    /\ since' = [since EXCEPT ![c] = IF since[c] >= 0 THEN since[c] + 1 ELSE -1]
    /\ lastCall' = Call("Cell.tick", c, -1)
    /\ CellFrame

\* population[c].contract_disease()
CellContractDisease(c) ==
    /\ status = "cells" /\ calls < MaxCalls
    /\ population' = [population EXCEPT ![c] = contract_disease(population[c])]
    /\ since' = [since EXCEPT ![c] = 0]
    /\ lastCall' = Call("Cell.contract_disease", c, -1)
    /\ CellFrame

\* population[c].immunize()
CellImmunize(c) ==
    /\ status = "cells" /\ calls < MaxCalls
    /\ population' = [population EXCEPT ![c] = immunize(population[c])]
    /\ since' = [since EXCEPT ![c] = -1]
    /\ lastCall' = Call("Cell.immunize", c, -1)
    /\ CellFrame

\* population[a].contact_with(population[b])
CellContactWith(a, b) ==
    /\ status = "cells" /\ calls < MaxCalls
    /\ a # b
    /\ LET r == contact_with(population[a], population[b])
       IN  /\ population' = [population EXCEPT ![a] = r[1], ![b] = r[2]]
           /\ since' = [since EXCEPT
                          ![a] = IF r[1] # population[a] THEN 0 ELSE since[a],
                          ![b] = IF r[2] # population[b] THEN 0 ELSE since[b]]
    /\ lastCall' = Call("Cell.contact_with", a, b)
    /\ CellFrame

CellNext ==
    \E a \in 0..1 :
        \/ CellTick(a)
        \/ CellContractDisease(a)
        \/ CellImmunize(a)
        \/ \E b \in 0..1 : CellContactWith(a, b)

CellSpec == CellInit /\ [][CellNext]_vars

(* ---------------- properties ---------------- *)
Constructed == status \in {"ok", "ValueError", "IndexError"}

AfterInit == Constructed /\ lastCall.op = "Model.__init__"

AfterTick == status = "ok" /\ lastCall.op = "Model.tick"

InfectedCountOk == 0 < args.ninfected /\ args.ninfected < args.cells

ImmuneCountOk == 0 <= args.nimmune /\ args.nimmune < args.cells

InContact(p, q) == distance2(p, q) < CELL_RADIUS * CELL_RADIUS

Indices == DOMAIN population

\* C1: whenever 0 < ninfected < cells and 0 <= nimmune < cells, Model(...) returns
\* without raising anything.
C1_ValidCountsNeverRaise ==
    (AfterInit /\ InfectedCountOk /\ ImmuneCountOk) => status = "ok"

\* C2: whenever ninfected or nimmune is out of its range, Model(...) raises
\* ValueError, and no Cell has been constructed when it does.
C2_InvalidCountsRaiseValueError ==
    (AfterInit /\ ~(InfectedCountOk /\ ImmuneCountOk))
        => (status = "ValueError" /\ population = EmptyPop)

C2_Witness ==
    /\ AfterInit /\ status = "ValueError"
    /\ InfectedCountOk /\ args.nimmune = args.cells

\* C3: when Model(...) returns, the population has `cells` agents: ninfected
\* Infected, nimmune Immune and every other one Susceptible.
C3_InitialCounts ==
    (AfterInit /\ status = "ok") =>
        /\ Len0(population) = args.cells
        /\ Cardinality({k \in Indices : is_infected(population[k])}) = args.ninfected
        /\ Cardinality({k \in Indices : is_immune(population[k])}) = args.nimmune
        /\ \A k \in Indices :
              is_vulnerable(population[k])
                  \/ (is_infected(population[k]) /\ ~is_immune(population[k]))
                  \/ (is_immune(population[k]) /\ ~is_infected(population[k]))

C3_Witness ==
    /\ AfterInit /\ status = "ok"
    /\ args.cells = 3 /\ args.ninfected = 1 /\ args.nimmune = 1
    /\ \E k \in Indices : is_vulnerable(population[k])

\* C4: after a tick, every agent that was Susceptible when the scan started and was
\* closer than the contact radius to an agent Infected at that moment is Infected,
\* whatever the two indices; and no agent made contact with itself.
C4_EveryPairResolved ==
    AfterTick =>
        /\ \A a \in Indices, b \in Indices :
              ( /\ a # b
                /\ InContact(scanPre[a].location, scanPre[b].location)
                /\ is_infected(scanPre[a])
                /\ is_vulnerable(scanPre[b]) )
              => is_infected(population[b])
        /\ \A c \in contacts : c[1] # c[2]

C4_Witness ==
    /\ AfterTick
    /\ \E b \in Indices :
          /\ b # 0
          /\ InContact(scanPre[0].location, scanPre[b].location)
          /\ is_infected(scanPre[0])
          /\ is_vulnerable(scanPre[b])
          /\ is_infected(population[b])
          /\ \A a \in Indices \ {0} : ~is_infected(scanPre[a])

AfterContact == status = "cells" /\ lastCall.op = "Cell.contact_with"

\* C5: a.contact_with(b) with exactly one of a, b Infected and the other Susceptible
\* leaves the Susceptible one Infected and the Infected one as it was, whichever of
\* the two is self; with any other health states it changes neither.
C5_ContactSymmetric ==
    AfterContact =>
        LET a == lastCall.a
            b == lastCall.b
        IN  /\ (is_infected(prev[a]) /\ is_vulnerable(prev[b]))
                 => (is_infected(population[b]) /\ population[a] = prev[a])
            /\ (is_vulnerable(prev[a]) /\ is_infected(prev[b]))
                 => (is_infected(population[a]) /\ population[b] = prev[b])
            /\ ~( \/ (is_infected(prev[a]) /\ is_vulnerable(prev[b]))
                  \/ (is_vulnerable(prev[a]) /\ is_infected(prev[b])) )
                 => population = prev

C5_Witness ==
    /\ AfterContact
    /\ is_vulnerable(prev[lastCall.a])
    /\ prev[lastCall.b].sickness > INFECTED
    /\ is_infected(population[lastCall.a])
    /\ population[lastCall.b] = prev[lastCall.b]

CellOps == {"Cell.contract_disease", "Cell.contact_with", "Cell.tick"}

\* C6 as stated: an agent that is Immune stays Immune through any call of
\* contract_disease, contact_with (as self or other) or Cell.tick.
C6_ImmuneStaysThroughAnyCall ==
    (status = "cells" /\ lastCall.op \in CellOps) =>
        \A c \in Indices : is_immune(prev[c]) => is_immune(population[c])

\* C6 amended: an agent that is Immune stays Immune through any call of
\* contact_with (as self or other) or Cell.tick; contract_disease is unconditional.
C6_ImmuneStaysThroughContactAndTick ==
    (status = "cells" /\ lastCall.op \in {"Cell.contact_with", "Cell.tick"}) =>
        \A c \in Indices :
            is_immune(prev[c]) =>
                population[c] =
                    IF lastCall.op = "Cell.tick" /\ lastCall.a = c
                    THEN [prev[c] EXCEPT
                            !.location = add(prev[c].location, prev[c].direction)]
                    ELSE prev[c]

C6_Witness ==
    /\ AfterContact
    /\ is_infected(prev[lastCall.a])
    /\ is_immune(prev[lastCall.b])
    /\ is_immune(population[lastCall.b])

Tracked == {c \in DOMAIN since : since[c] >= 0}

C8_MoveBeforeContact ==
    AfterTick =>
        /\ \A k \in Indices :
              /\ population[k].location = scanPre[k].location
              /\ population[k].direction = scanPre[k].direction
        /\ \A b \in Indices :
              is_vulnerable(prev[b]) =>
                /\ (\E a \in Indices \ {b} :
                        /\ is_infected(scanPre[a])
                        /\ InContact(population[a].location, population[b].location))
                     => is_infected(population[b])
                /\ is_infected(population[b]) =>
                     /\ population[b].sickness = INFECTED
                     /\ \E a \in Indices \ {b} :
                           /\ is_infected(population[a])
                           /\ InContact(population[a].location, population[b].location)

\* A pair in contact before the move and not after it: no transmission.
C8_Witness ==
    /\ AfterTick
    /\ \E a \in Indices, b \in Indices :
          /\ is_infected(prev[a]) /\ is_infected(scanPre[a])
          /\ is_vulnerable(prev[b])
          /\ InContact(prev[a].location, prev[b].location)
          /\ ~InContact(population[a].location, population[b].location)
          /\ is_vulnerable(population[b])

\* C9: per axis, a coordinate that the move takes beyond a bound is set to that
\* bound and its velocity component negated; a coordinate the move leaves within
\* the bounds keeps the moved value and its velocity component.
C9_ReflectPerAxis ==
    AfterTick =>
        \A k \in Indices :
            LET m == add(prev[k].location, prev[k].direction)
                d == prev[k].direction
                c == population[k]
            IN  /\ m.x > MAX_X => (c.location.x = MAX_X /\ c.direction.x = -d.x)
                /\ m.x < MIN_X => (c.location.x = MIN_X /\ c.direction.x = -d.x)
                /\ (MIN_X <= m.x /\ m.x <= MAX_X)
                     => (c.location.x = m.x /\ c.direction.x = d.x)
                /\ m.y > MAX_Y => (c.location.y = MAX_Y /\ c.direction.y = -d.y)
                /\ m.y < MIN_Y => (c.location.y = MIN_Y /\ c.direction.y = -d.y)
                /\ (MIN_Y <= m.y /\ m.y <= MAX_Y)
                     => (c.location.y = m.y /\ c.direction.y = d.y)

\* An agent at the upper x-bound with positive x-velocity, one tick later.
C9_Witness ==
    /\ AfterTick
    /\ \E k \in Indices :
          /\ prev[k].location.x = MAX_X /\ prev[k].direction.x > 0
          /\ population[k].location.x = MAX_X /\ population[k].direction.x < 0
          /\ population[k].location.y = prev[k].location.y
          /\ population[k].direction.y = prev[k].direction.y

\* C10: is_complete returns True iff no agent is Infected, changes neither the
\* population nor time, and returns False before the first tick.
C10_IsCompletePureRead ==
    [][ (status = "ok" /\ lastCall'.op = "Model.is_complete") =>
            /\ ret' = PyBool(\A k \in Indices : ~is_infected(population[k]))
            /\ population' = population
            /\ time' = time
            /\ (time = 0 => ret' = "False") ]_vars

C10_Witness ==
    /\ status = "ok" /\ lastCall.op = "Model.is_complete"
    /\ ret = "True"
    /\ time > 0
    /\ \E k \in Indices : is_vulnerable(population[k])

Complete == status = "ok" /\ is_complete(population).ret

Susceptible(pop) == {k \in DOMAIN pop : is_vulnerable(pop[k])}

\* C11: from every constructed population, whatever the movement, repeated ticks
\* reach a state where is_complete() returns True; and no tick adds a Susceptible.
C11_EventuallyComplete ==
    /\ (status = "ok") ~> Complete
    /\ [][status = "ok" => Susceptible(population') \subseteq Susceptible(population)]_vars

\* Three agents, one infected, all at one place and not moving: all end Immune.
C11_Witness ==
    /\ Complete
    /\ args.cells = 3 /\ args.ninfected = 1 /\ args.nimmune = 0 /\ args.speed = 0
    /\ \A k \in Indices : is_immune(population[k])
    /\ \A a \in Indices, b \in Indices : population[a].location = population[b].location

\* C12: time is the number of tick() calls made (each adds exactly 1), and the
\* population is the agents built at construction, in that order and number.
C12_TimeCountsTicksPopulationFixed ==
    /\ [](status = "ok" =>
            /\ time = calls
            /\ Len0(population) = args.cells
            /\ \A k \in Indices : population[k].id = k)
    /\ [][status = "ok" => (time' = time \/ (time' = time + 1 /\ calls' = calls + 1))]_vars

C12_Witness ==
    /\ AfterTick
    /\ time = 3 /\ calls = 3
    /\ args.cells = 3
    /\ contacts # {}
    /\ \E k \in Indices : population[k].location # prev[k].location

Health(c) ==
    IF is_infected(c) THEN "Infected"
    ELSE IF is_immune(c) THEN "Immune"
    ELSE IF is_vulnerable(c) THEN "Susceptible"
    ELSE "none"

\* C13: over any ticks an agent's health either stays or goes Susceptible ->
\* Infected or Infected -> Immune; never back, never Susceptible -> Immune.
C13_OneWayHealth ==
    AfterTick =>
        \A k \in Indices :
            \/ Health(population[k]) = Health(prev[k])
            \/ Health(prev[k]) = "Susceptible" /\ Health(population[k]) = "Infected"
            \/ Health(prev[k]) = "Infected" /\ Health(population[k]) = "Immune"

C13_Witness ==
    /\ AfterTick
    /\ \E a \in Indices, b \in Indices :
          /\ Health(prev[a]) = "Susceptible" /\ Health(population[a]) = "Infected"
          /\ Health(prev[b]) = "Infected" /\ Health(population[b]) = "Immune"
          /\ InContact(population[a].location, population[b].location)

Count(b) == IF b THEN 1 ELSE 0

\* C14: in every state after construction each agent's sickness satisfies exactly
\* one of is_vulnerable, is_infected, is_immune; an Infected agent that a tick
\* does not make Immune still reads is_infected with its counter one higher; and
\* color() is "red", "green", "gray" for Infected, Immune, Susceptible.
C14_SicknessEncodesHealth ==
    status = "ok" =>
        \A k \in Indices :
            LET c == population[k]
            IN  /\ Count(is_vulnerable(c)) + Count(is_infected(c)) + Count(is_immune(c)) = 1
                /\ is_infected(c) <=> color(c) = "red"
                /\ is_immune(c) <=> color(c) = "green"
                /\ is_vulnerable(c) <=> color(c) = "gray"
                /\ (lastCall.op = "Model.tick" /\ is_infected(prev[k]))
                     => \/ is_immune(c)
                        \/ is_infected(c) /\ c.sickness = prev[k].sickness + 1

C14_Witness ==
    /\ AfterTick
    /\ \E a \in Indices, b \in Indices, c \in Indices :
          /\ population[a].sickness = RECOVERY_PERIOD /\ color(population[a]) = "red"
          /\ prev[a].sickness = RECOVERY_PERIOD - 1
          /\ color(population[b]) = "green"
          /\ color(population[c]) = "gray"

Abs(n) == IF n < 0 THEN -n ELSE n

InArena(p) == MIN_X <= p.x /\ p.x <= MAX_X /\ MIN_Y <= p.y /\ p.y <= MAX_Y

\* C15: after construction and after every tick each agent is inside the arena,
\* whatever the speed, and a tick changes at most the sign of a velocity component.
C15_ArenaConfinement ==
    status = "ok" =>
        \A k \in Indices :
            /\ InArena(population[k].location)
            /\ lastCall.op = "Model.tick" =>
                  /\ Abs(population[k].direction.x) = Abs(prev[k].direction.x)
                  /\ Abs(population[k].direction.y) = Abs(prev[k].direction.y)

\* An agent that its move took outside the arena on the lower x side.
C15_Witness ==
    /\ AfterTick
    /\ args.speed = MaxSpeed
    /\ \E k \in Indices :
          /\ add(prev[k].location, prev[k].direction).x < MIN_X
          /\ population[k].location.x = MIN_X
          /\ population[k].direction.x = -prev[k].direction.x
          /\ population[k].direction.x > 0

NoneInfected(pop) == \A k \in DOMAIN pop : ~is_infected(pop[k])

\* C16: once no agent is Infected (is_complete() is True), every later tick
\* leaves every agent's sickness as it was, so is_complete() stays True.
C16_CompletionAbsorbing ==
    (AfterTick /\ NoneInfected(prev)) =>
        /\ NoneInfected(population)
        /\ \A k \in Indices : population[k].sickness = prev[k].sickness

C16_Witness ==
    /\ AfterTick /\ NoneInfected(prev) /\ is_complete(population).ret
    /\ \E a \in Indices, b \in Indices :
          /\ is_vulnerable(population[a]) /\ is_immune(population[b])
          /\ <<a, b>> \in contacts \/ <<b, a>> \in contacts

\* C17: the scan leaves an agent that is Infected when it starts exactly as it
\* was, so every tick adds exactly 1 to an Infected agent's counter (or ends the
\* infection at RECOVERY_PERIOD), whether or not it touches Infected agents.
C17_ContactKeepsCounter ==
    AfterTick =>
        \A k \in Indices :
            /\ is_infected(scanPre[k]) => population[k] = scanPre[k]
            /\ is_infected(prev[k]) =>
                  IF prev[k].sickness < RECOVERY_PERIOD
                  THEN population[k].sickness = prev[k].sickness + 1
                  ELSE is_immune(population[k])

\* Two Infected agents, their counters past INFECTED, that made contact.
C17_Witness ==
    /\ AfterTick
    /\ \E a \in Indices, b \in Indices :
          /\ <<a, b>> \in contacts
          /\ is_infected(scanPre[a]) /\ is_infected(scanPre[b])
          /\ scanPre[a].sickness > INFECTED
          /\ population[a].sickness = prev[a].sickness + 1
          /\ population[b].sickness = prev[b].sickness + 1

\* C18: an agent Susceptible before a tick is Infected after it only if another
\* agent, closer than the contact radius at the positions after the move, is
\* Infected when the tick ends; with no other agent within the radius it stays
\* Susceptible.
C18_NoSpontaneousInfection ==
    AfterTick =>
        \A b \in Indices :
            is_vulnerable(prev[b]) =>
                /\ is_infected(population[b]) =>
                      \E a \in Indices \ {b} :
                          /\ InContact(population[a].location, population[b].location)
                          /\ is_infected(population[a])
                /\ (\A a \in Indices \ {b} :
                        ~InContact(population[a].location, population[b].location))
                     => is_vulnerable(population[b])

\* A Susceptible agent out of reach of an Infected one, and staying Susceptible.
C18_Witness ==
    /\ AfterTick
    /\ \E a \in Indices, b \in Indices :
          /\ is_infected(population[a])
          /\ is_vulnerable(prev[b]) /\ is_vulnerable(population[b])
          /\ \A c \in Indices \ {b} :
                ~InContact(population[c].location, population[b].location)

====
